---- MODULE Spec2Model ----
(***************************************************************************)
(* A model of the VectorEmbedding repository: the DocumentService          *)
(* (chunking and the in-memory store), the SimilarityService (ranking,     *)
(* similarity matrix, threshold clustering) and the RAGController          *)
(* pipeline over its two remote collaborators.                             *)
(*                                                                         *)
(* Strings that the code inspects character by character (document         *)
(* content, chunk content) are sequences of one-character strings.         *)
(* Identifiers that the code only compares or concatenates are strings.    *)
(***************************************************************************)
EXTENDS Integers, Sequences, FiniteSets, TLC

----------------------------------------------------------------------------
(* Bounds of the model *)

MaxContentLen == 3

MaxRagContentLen == 1

MaxOps == 3

MaxRagOps == 4

MaxWords == 3

MaxDefaultWords == 101

MaxWindowWords == 5

MaxBatch == 3

MaxVectors == 201

MaxVectorOps == 3

----------------------------------------------------------------------------
(* Values *)

\* JavaScript null / undefined for an embedding; real vectors are non-empty
Null == <<>>

Chars == {" ", "a"}

DocIds == {"d1", "d2"}

Titles == {"T"}

\* all character strings of length at most n
Strings(n) == UNION {[1..k -> Chars] : k \in 0..n}

Contents == Strings(MaxContentLen)

RagContents == Strings(MaxRagContentLen)

\* (chunkSize, chunkOverlap) settings of a DocumentService; <<500, 50>> is
\* what the constructor sets
DefaultConfig == <<500, 50>>

Configs == {DefaultConfig, <<15, 5>>, <<10, 5>>, <<5, 0>>, <<10, 10>>, <<5, 10>>}

\* the settings under which the store is exercised as a whole
StoreConfigs == {DefaultConfig, <<10, 5>>, <<5, 0>>}

\* the loop of createChunks need not terminate; the model stops following it
\* once more chunks exist than any terminating run can produce
MaxChunks == MaxContentLen + 2

----------------------------------------------------------------------------
(* String primitives of the JavaScript runtime used by DocumentService *)

\* the places where a piece of s.split(/\s+/) begins: the start of s and the
\* place after every run of whitespace
PieceStarts(s) ==
    {1} \cup {k \in 2..(Len(s) + 1) : s[k - 1] = " " /\ (k > Len(s) \/ s[k] # " ")}

\* the piece that begins at place p and ends before the next whitespace
PieceAt(s, p) ==
    LET spaces == {k \in p..Len(s) : s[k] = " "}
        end    == IF spaces = {} THEN Len(s)
                  ELSE (CHOOSE k \in spaces : \A j \in spaces : k <= j) - 1
    IN  SubSeq(s, p, end)

\* content.split(/\s+/)
Split(s) ==
    LET starts == PieceStarts(s)
        rank   == [p \in starts |-> Cardinality({q \in starts : q <= p})]
    IN  [i \in 1..Cardinality(starts) |->
            PieceAt(s, CHOOSE p \in starts : rank[p] = i)]

RECURSIVE Join(_)
\* words.join(' ')
Join(ws) ==
    IF Len(ws) = 0 THEN <<>>
    ELSE IF Len(ws) = 1 THEN ws[1]
    ELSE LET half == Len(ws) \div 2
         IN  Join(SubSeq(ws, 1, half)) \o <<" ">> \o Join(SubSeq(ws, half + 1, Len(ws)))

RECURSIVE TrimStart(_)
TrimStart(s) ==
    IF Len(s) > 0 /\ s[1] = " " THEN TrimStart(Tail(s)) ELSE s

RECURSIVE TrimEnd(_)
TrimEnd(s) ==
    IF Len(s) > 0 /\ s[Len(s)] = " " THEN TrimEnd(SubSeq(s, 1, Len(s) - 1)) ELSE s

\* s.trim()
Trim(s) == TrimEnd(TrimStart(s))

\* Array.prototype.slice(start, end) with 0-based indices, negative indices
\* counting from the end
Slice(arr, start, end) ==
    LET n    == Len(arr)
        from == IF start < 0 THEN (IF n + start < 0 THEN 0 ELSE n + start)
                ELSE (IF start > n THEN n ELSE start)
        to   == IF end < 0 THEN (IF n + end < 0 THEN 0 ELSE n + end)
                ELSE (IF end > n THEN n ELSE end)
    IN  SubSeq(arr, from + 1, to)

----------------------------------------------------------------------------
(* State *)

VARIABLES
    \* DocumentService
    documents,          \* Map id -> document
    documentChunks,     \* Map id -> array of chunks
    chunkEmbeddings,    \* Map chunkId -> {chunkId, embedding, chunk}, in insertion order
    chunkSize,
    chunkOverlap,
    storeCall,          \* the last call of the DocumentService and its outcome
    ledger,             \* what was registered and embedded since the last clearAll
    \* the running createChunks call
    pc,                 \* "idle" or "loop"
    callArgs,           \* arguments of the last createChunks call and who made it
    loopI,              \* the loop variable i
    chunks,             \* the chunks array
    currentPosition,
    \* SimilarityService: the argument and the outcome of the last call
    wordEmbeddings,     \* the object word -> embedding, as its entries in key order
    simResult,
    \* RAGController and its collaborators
    isInitialized,
    vsIndex,            \* PineconeVectorService.index: "null" or "index"
    pinecone,           \* the vectors of the remote index, by id
    ragPc,              \* "idle", or inside addDocument "ingesting", "embedding"
                        \* or "storing"
    ragCall,            \* the last call of the controller and its outcome
    calls,              \* the collaborator requests that call has made
    batchEmbeddings,    \* the embeddings object of getBatchEmbeddings
    embedI,             \* the loop variable of getBatchEmbeddings
    batchPc,            \* where getBatchEmbeddings stands: "idle", "loop", "awaiting",
                        \* "delay" or "returned"
    batchTexts,         \* the argument of getBatchEmbeddings
    inFlight,           \* the embedContent requests sent and not yet answered
    embedLog,           \* the requests, responses and delays of the running call
    initSucceeded,      \* some initialize() has returned true
    budget              \* operations the model still follows

storeVars == <<documents, documentChunks, chunkEmbeddings>>

configVars == <<chunkSize, chunkOverlap>>

callVars == <<storeCall, ledger>>

loopVars == <<pc, callArgs, loopI, chunks, currentPosition>>

simVars == <<wordEmbeddings, simResult>>

batchVars == <<batchEmbeddings, embedI, batchPc, batchTexts, inFlight, embedLog>>

controllerVars == <<isInitialized, vsIndex, pinecone, ragPc, ragCall, calls, initSucceeded>>

ragVars == <<controllerVars, batchVars>>

vars == <<documents, documentChunks, chunkEmbeddings, chunkSize, chunkOverlap,
          storeCall, ledger,
          pc, callArgs, loopI, chunks, currentPosition,
          wordEmbeddings, simResult,
          isInitialized, vsIndex, pinecone, ragPc, ragCall, calls,
          batchEmbeddings, embedI, batchPc, batchTexts, inFlight, embedLog,
          initSucceeded, budget>>

NoStoreCall == [op |-> "none", documentId |-> "", embeddings |-> <<>>,
                error |-> "none"]

StoreCall(op, documentId, embeddings, error) ==
    [op |-> op, documentId |-> documentId, embeddings |-> embeddings,
     error |-> error]

EmptyLedger == [ids |-> {}, embedded |-> {}]

NoCall == [caller |-> "none", content |-> <<>>, documentId |-> "", title |-> ""]

----------------------------------------------------------------------------
(* DocumentService.createChunks *)

avgWordsPerChunk == chunkSize \div 5

\* the overlap taken in characters
overlapWords_InCharacters == chunkOverlap

overlapWords == chunkOverlap \div 5

\* a window moved on by its size and the overlap
LoopStep_PastTheWindow == avgWordsPerChunk + overlapWords

\* the increment of the for loop
LoopStep == avgWordsPerChunk - overlapWords

words == Split(callArgs.content)

\* the window taken from the start of the array every time
chunkWords_FromStart == Slice(words, 0, loopI + avgWordsPerChunk)

chunkWords == Slice(words, loopI, loopI + avgWordsPerChunk)

chunkContent == Join(chunkWords)

\* a slip in the index: counting from one
NextChunkIndex_OneBased(cs) == Len(cs) + 1

\* chunks.length at the time of the push
NextChunkIndex(cs) == Len(cs)

ChunkId(documentId, n) == documentId \o "_chunk_" \o ToString(n)

NewChunk ==
    [id            |-> ChunkId(callArgs.documentId, NextChunkIndex(chunks)),
     documentId    |-> callArgs.documentId,
     documentTitle |-> callArgs.title,
     content       |-> chunkContent,
     startPosition |-> currentPosition,
     endPosition   |-> currentPosition + Len(chunkContent),
     chunkIndex    |-> NextChunkIndex(chunks),
     wordCount     |-> Len(chunkWords)]

\* the loop without its break
LoopExits_NoBreak == loopI >= Len(words)

\* the loop is left: its condition fails or the break is taken
LoopExits == loopI >= Len(words) \/ Len(Trim(chunkContent)) = 0

Range(seq) == {seq[n] : n \in 1..Len(seq)}

MapSet(m, k, v) == [x \in DOMAIN m \cup {k} |-> IF x = k THEN v ELSE m[x]]

EmptyMap == [x \in {} |-> x]

\* createChunks(content, documentId, title) called on its own
CreateChunks(content, documentId, title) ==
    /\ pc = "idle"
    /\ ragPc = "idle"
    /\ budget > 0
    /\ budget' = budget - 1
    /\ pc' = "loop"
    /\ callArgs' = [caller |-> "createChunks", content |-> content,
                    documentId |-> documentId, title |-> title]
    /\ loopI' = 0
    /\ chunks' = <<>>
    /\ currentPosition' = 0
    /\ UNCHANGED <<storeVars, configVars, callVars, simVars, ragVars>>

\* one iteration of the for loop that pushes a chunk
ChunkIter ==
    /\ pc = "loop"
    /\ ~LoopExits
    /\ Len(chunks) < MaxChunks
    /\ chunks' = Append(chunks, NewChunk)
    /\ currentPosition' = currentPosition + Len(chunkContent)
    /\ loopI' = loopI + LoopStep
    /\ UNCHANGED <<pc, callArgs, storeVars, configVars, callVars, simVars, ragVars, budget>>

\* the loop ends and createChunks returns; addDocument then stores the chunks
ChunkReturn ==
    /\ pc = "loop"
    /\ LoopExits
    /\ pc' = "idle"
    /\ documentChunks' = IF callArgs.caller = "addDocument"
                         THEN MapSet(documentChunks, callArgs.documentId, chunks)
                         ELSE documentChunks
    /\ UNCHANGED <<documents, chunkEmbeddings, configVars, callVars, callArgs, loopI,
                   chunks, currentPosition, simVars, ragVars, budget>>

----------------------------------------------------------------------------
(* DocumentService: the store *)

NewDocument(id, title, content) ==
    [id |-> id, title |-> title, content |-> content,
     characterCount |-> Len(content), wordCount |-> Len(Split(content))]

\* DocumentService.addDocument up to its call of createChunks: the document is
\* registered and the loop of createChunks starts
addDocument(id, title, content) ==
    /\ documents' = MapSet(documents, id, NewDocument(id, title, content))
    /\ pc' = "loop"
    /\ callArgs' = [caller |-> "addDocument", content |-> content,
                    documentId |-> id, title |-> title]
    /\ loopI' = 0
    /\ chunks' = <<>>
    /\ currentPosition' = 0
    /\ storeCall' = StoreCall("addDocument", id, <<>>, "none")
    /\ ledger' = [ledger EXCEPT !.ids = @ \cup {id}]
    /\ UNCHANGED <<documentChunks, chunkEmbeddings, configVars>>

\* addDocument called on the DocumentService itself
AddDocument(id, title, content) ==
    /\ pc = "idle"
    /\ ragPc = "idle"
    /\ budget > 0
    /\ budget' = budget - 1
    /\ addDocument(id, title, content)
    /\ UNCHANGED <<simVars, ragVars>>

\* index of the entry with that key in an insertion-ordered Map, 0 if none
KeyIndex(m, k) ==
    IF \E n \in 1..Len(m) : m[n].chunkId = k
    THEN CHOOSE n \in 1..Len(m) : m[n].chunkId = k
    ELSE 0

\* a list that takes every entry as a new one
OrderedSet_AlwaysAppend(m, entry) == Append(m, entry)

\* Map.prototype.set: a present key keeps its place
OrderedSet(m, entry) ==
    IF KeyIndex(m, entry.chunkId) = 0 THEN Append(m, entry)
    ELSE [m EXCEPT ![KeyIndex(m, entry.chunkId)] = entry]

\* the array read one place too far
At_OnePlaceOn(arr, index) == IF index + 2 \in 1..Len(arr) THEN arr[index + 2] ELSE Null

\* embeddings[index]: undefined beyond the end of the array
At(arr, index) == IF index + 1 \in 1..Len(arr) THEN arr[index + 1] ELSE Null

RECURSIVE StoreEach(_, _, _, _)
\* the forEach of storeChunkEmbeddings from position index on
StoreEach(m, cs, embeddings, index) ==
    IF index >= Len(cs) THEN m
    ELSE LET chunk == cs[index + 1]
             m2 == IF At(embeddings, index) # Null
                   THEN OrderedSet(m, [chunkId |-> chunk.id,
                                       embedding |-> At(embeddings, index),
                                       chunk |-> chunk])
                   ELSE m
         IN  StoreEach(m2, cs, embeddings, index + 1)

StoreVectors == {Null, <<1, 0>>}

EmbeddingArrays == UNION {[1..k -> StoreVectors] : k \in 0..(MaxContentLen - 1)}

getDocumentChunks(documentId) ==
    IF documentId \in DOMAIN documentChunks THEN documentChunks[documentId] ELSE <<>>

\* the test left out
UnknownDocument_Never(documentId) == FALSE

\* !chunks, for chunks = this.documentChunks.get(documentId)
UnknownDocument(documentId) == documentId \notin DOMAIN documentChunks

\* storeChunkEmbeddings: throws for an unknown document
StoreChunkEmbeddings(documentId, embeddings) ==
    /\ pc = "idle"
    /\ ragPc = "idle"
    /\ budget > 0
    /\ budget' = budget - 1
    /\ IF UnknownDocument(documentId)
       THEN /\ storeCall' = StoreCall("storeChunkEmbeddings", documentId, embeddings,
                                      "Document not found")
            /\ UNCHANGED <<chunkEmbeddings, ledger>>
       ELSE /\ storeCall' = StoreCall("storeChunkEmbeddings", documentId, embeddings,
                                      "none")
            /\ chunkEmbeddings' = StoreEach(chunkEmbeddings,
                                            getDocumentChunks(documentId), embeddings, 0)
            /\ ledger' = [ledger EXCEPT !.embedded =
                             @ \cup {getDocumentChunks(documentId)[n].id :
                                       n \in {k \in 1..Len(getDocumentChunks(documentId)) :
                                                 k <= Len(embeddings)
                                                 /\ embeddings[k] # Null}}]
    /\ UNCHANGED <<documents, documentChunks, configVars, loopVars, simVars, ragVars>>

ClearAll ==
    /\ pc = "idle"
    /\ ragPc = "idle"
    /\ budget > 0
    /\ budget' = budget - 1
    /\ documents' = EmptyMap
    /\ documentChunks' = EmptyMap
    /\ chunkEmbeddings' = <<>>
    /\ storeCall' = StoreCall("clearAll", "", <<>>, "none")
    /\ ledger' = EmptyLedger
    /\ UNCHANGED <<configVars, loopVars, simVars, ragVars>>

getAllChunksWithEmbeddings == chunkEmbeddings

----------------------------------------------------------------------------
(* SimilarityService *)

Words == {"happy", "joyful", "sad", "calm"}

\* embeddings are two-dimensional and non-zero
Vectors == {<<1, 0>>, <<1, 1>>, <<-1, 0>>}

\* with a vector that is near <<1, 1>> and not near <<1, 0>>
ClusterVectors == Vectors \cup {<<0, 1>>}

\* similarities are kept in thousandths, 1000 being 1.0
Scale == 1000

Thresholds == {700, 900}

ISqrt(x) == CHOOSE r \in 0..Scale : r * r <= x /\ x < (r + 1) * (r + 1)

Dot(a, b) == a[1] * b[1] + a[2] * b[2]

\* the cosine of two non-zero vectors, truncated to thousandths
Cosine(a, b) ==
    LET d == Dot(a, b)
        q == ISqrt((d * d * Scale * Scale) \div (Dot(a, a) * Dot(b, b)))
    IN  IF d < 0 THEN 0 - q ELSE q

\* what calculateCosineSimilarity gives where it throws
Invalid == 0 - 2 * Scale

calculateCosineSimilarity(embedding1, embedding2) ==
    IF embedding1 = Null \/ embedding2 = Null THEN Invalid
    ELSE Cosine(embedding1, embedding2)

\* wordEmbeddings[word]: undefined for a word that is not a key
Lookup(we, word) ==
    IF \E n \in 1..Len(we) : we[n].word = word
    THEN (CHOOSE e \in Range(we) : e.word = word).embedding
    ELSE Null

\* the candidates findMostSimilar passes over: the target, and a null embedding
SkipCandidate_TargetOnly(entry, targetWord) == entry.word = targetWord

SkipCandidate(entry, targetWord) ==
    entry.word = targetWord \/ entry.embedding = Null

RECURSIVE Similarities(_, _, _)
\* the similarities array after the for loop over Object.entries
Similarities(we, targetWord, targetEmbedding) ==
    IF Len(we) = 0 THEN <<>>
    ELSE LET rest == Similarities(Tail(we), targetWord, targetEmbedding)
         IN  IF SkipCandidate(we[1], targetWord) THEN rest
             ELSE <<[word       |-> we[1].word,
                     similarity |-> calculateCosineSimilarity(targetEmbedding,
                                                              we[1].embedding)]>>
                  \o rest

\* a comparator written the wrong way round
Compare_Ascending(a, b) == a.similarity - b.similarity

\* the comparator handed to sort
Compare(a, b) == b.similarity - a.similarity

RECURSIVE Insert(_, _)
\* x placed behind every element that does not have to come after it
Insert(sorted, x) ==
    IF Len(sorted) = 0 THEN <<x>>
    ELSE IF Compare(sorted[1], x) > 0 THEN <<x>> \o sorted
    ELSE <<sorted[1]>> \o Insert(Tail(sorted), x)

RECURSIVE Sort(_)
\* Array.prototype.sort, which is stable
Sort(arr) ==
    IF Len(arr) = 0 THEN <<>>
    ELSE Insert(Sort(SubSeq(arr, 1, Len(arr) - 1)), arr[Len(arr)])

Thrown(message) == [error |-> message, value |-> <<>>]

Returned(value) == [error |-> "none", value |-> value]

findMostSimilar(targetWord, we, topK) ==
    LET targetEmbedding == Lookup(we, targetWord)
        similarities    == Similarities(we, targetWord, targetEmbedding)
    IN  IF targetEmbedding = Null THEN Thrown("Target word not found in embeddings")
        ELSE IF \E n \in 1..Len(similarities) : similarities[n].similarity = Invalid
             THEN Thrown("Invalid embeddings provided")
        ELSE Returned(Slice(Sort(similarities), 0, topK))

\* the matrix as a function on the pairs <<word1, word2>> that have an entry
MatrixSet(m, a, b, v) ==
    [p \in DOMAIN m \cup {<<a, b>>} |-> IF p = <<a, b>> THEN v ELSE m[p]]

\* the symmetric entry is found but not written
MatrixCell_NoCopy(we, m, i, j) ==
    LET word1 == we[i].word
        word2 == we[j].word
    IN  IF i = j THEN MatrixSet(m, word1, word2, Scale)
        ELSE IF <<word2, word1>> \in DOMAIN m THEN m
        ELSE IF we[i].embedding # Null /\ we[j].embedding # Null
             THEN MatrixSet(m, word1, word2,
                            calculateCosineSimilarity(we[i].embedding, we[j].embedding))
             ELSE m

\* the diagonal computed like any other entry
MatrixCell_DiagonalComputed(we, m, i, j) ==
    LET word1 == we[i].word
        word2 == we[j].word
    IN  IF i # j /\ <<word2, word1>> \in DOMAIN m
        THEN MatrixSet(m, word1, word2, m[<<word2, word1>>])
        ELSE IF we[i].embedding # Null /\ we[j].embedding # Null
             THEN MatrixSet(m, word1, word2,
                            calculateCosineSimilarity(we[i].embedding, we[j].embedding))
             ELSE m

\* the body of the inner loop of createSimilarityMatrix, i and j 1-based
MatrixCell(we, m, i, j) ==
    LET word1 == we[i].word
        word2 == we[j].word
    IN  IF i = j THEN MatrixSet(m, word1, word2, Scale)
        ELSE IF <<word2, word1>> \in DOMAIN m
             THEN MatrixSet(m, word1, word2, m[<<word2, word1>>])
        ELSE IF we[i].embedding # Null /\ we[j].embedding # Null
             THEN MatrixSet(m, word1, word2,
                            calculateCosineSimilarity(we[i].embedding, we[j].embedding))
             ELSE m

RECURSIVE MatrixFrom(_, _, _, _)
MatrixFrom(we, m, i, j) ==
    IF i > Len(we) THEN m
    ELSE IF j > Len(we) THEN MatrixFrom(we, m, i + 1, 1)
    ELSE MatrixFrom(we, MatrixCell(we, m, i, j), i, j + 1)

createSimilarityMatrix(we) == Returned(MatrixFrom(we, EmptyMap, 1, 1))

\* a test that forgets the visited set
Joins_VisitedOrNot(s, visited, threshold) == s.similarity >= threshold

\* the test of the inner loop of clusterByThreshold
Joins(s, visited, threshold) == s.word \notin visited /\ s.similarity >= threshold

RECURSIVE Absorb(_, _, _, _)
\* the inner loop of clusterByThreshold: <<cluster, visited>> after it
Absorb(similarWords, cluster, visited, threshold) ==
    IF Len(similarWords) = 0 THEN <<cluster, visited>>
    ELSE LET s == similarWords[1]
         IN  IF Joins(s, visited, threshold)
             THEN Absorb(Tail(similarWords), Append(cluster, s.word),
                         visited \cup {s.word}, threshold)
             ELSE Absorb(Tail(similarWords), cluster, visited, threshold)

RECURSIVE ClusterFrom(_, _, _, _, _)
\* the outer loop of clusterByThreshold from the k-th word on
ClusterFrom(we, k, visited, clusters, threshold) ==
    IF k > Len(we) THEN Returned(clusters)
    ELSE IF we[k].word \in visited
         THEN ClusterFrom(we, k + 1, visited, clusters, threshold)
    ELSE LET found == findMostSimilar(we[k].word, we, Len(we) - 1)
             after == Absorb(found.value, <<we[k].word>>,
                             visited \cup {we[k].word}, threshold)
         IN  IF found.error # "none" THEN found
             ELSE ClusterFrom(we, k + 1, after[2], Append(clusters, after[1]),
                              threshold)

clusterByThreshold(we, threshold) == ClusterFrom(we, 1, {}, <<>>, threshold)

NoSimCall == [op |-> "none", targetWord |-> "", topK |-> 0, threshold |-> 0,
              score |-> 0, error |-> "none", value |-> <<>>]

SimCall(op, targetWord, topK, threshold, outcome) ==
    [op |-> op, targetWord |-> targetWord, topK |-> topK, threshold |-> threshold,
     score |-> 0, error |-> outcome.error, value |-> outcome.value]

SimIdle ==
    /\ simResult.op = "none"
    /\ budget > 0
    /\ budget' = budget - 1
    /\ UNCHANGED <<wordEmbeddings, storeVars, configVars, callVars, loopVars, ragVars>>

FindMostSimilar(targetWord, topK) ==
    /\ SimIdle
    /\ simResult' = SimCall("findMostSimilar", targetWord, topK, 0,
                            findMostSimilar(targetWord, wordEmbeddings, topK))

CreateSimilarityMatrix ==
    /\ SimIdle
    /\ simResult' = SimCall("createSimilarityMatrix", "", 0, 0,
                            createSimilarityMatrix(wordEmbeddings))

ClusterByThreshold(threshold) ==
    /\ SimIdle
    /\ simResult' = SimCall("clusterByThreshold", "", 0, threshold,
                            clusterByThreshold(wordEmbeddings, threshold))

\* the objects with at most n keys: entries with distinct words
Mappings(n) ==
    {we \in UNION {[1..k -> [word : Words, embedding : Vectors \cup {Null}]] : k \in 0..n} :
        \A a, b \in 1..Len(we) : a # b => we[a].word # we[b].word}

----------------------------------------------------------------------------
(* DocumentService.getStats and SimilarityService.interpretSimilarity *)

RECURSIVE SumOver(_, _)
SumOver(f, keys) ==
    IF keys = {} THEN 0
    ELSE LET k == CHOOSE x \in keys : TRUE
         IN  f[k] + SumOver(f, keys \ {k})

\* Math.round of a / b for a >= 0 and b > 0
RoundDiv(a, b) == (2 * a + b) \div (2 * b)

getStats ==
    LET totalDocuments  == Cardinality(DOMAIN documents)
        totalChunks     == SumOver([d \in DOMAIN documentChunks |->
                                       Len(documentChunks[d])], DOMAIN documentChunks)
        totalWords      == SumOver([d \in DOMAIN documents |->
                                       documents[d].wordCount], DOMAIN documents)
        totalCharacters == SumOver([d \in DOMAIN documents |->
                                       documents[d].characterCount], DOMAIN documents)
    IN  [totalDocuments  |-> totalDocuments,
         totalChunks     |-> totalChunks,
         totalEmbeddings |-> Len(chunkEmbeddings),
         totalWords      |-> totalWords,
         totalCharacters |-> totalCharacters,
         averageWordsPerDocument  |-> IF totalDocuments > 0
                                      THEN RoundDiv(totalWords, totalDocuments) ELSE 0,
         averageChunksPerDocument |-> IF totalDocuments > 0
                                      THEN RoundDiv(totalChunks, totalDocuments) ELSE 0]

\* the comparisons taken as "at least"
interpretSimilarity_AtLeast(score) ==
    IF score >= 900 THEN "Nearly identical meaning"
    ELSE IF score >= 700 THEN "Very similar meaning"
    ELSE IF score >= 500 THEN "Moderately similar"
    ELSE IF score >= 300 THEN "Somewhat related"
    ELSE IF score >= 100 THEN "Slightly related"
    ELSE "Very different meaning"

\* scores in thousandths, as the similarities are
interpretSimilarity(score) ==
    IF score > 900 THEN "Nearly identical meaning"
    ELSE IF score > 700 THEN "Very similar meaning"
    ELSE IF score > 500 THEN "Moderately similar"
    ELSE IF score > 300 THEN "Somewhat related"
    ELSE IF score > 100 THEN "Slightly related"
    ELSE "Very different meaning"

\* the scores a cosine similarity can take, in thousandths
ScoreValues == (0 - Scale)..Scale

InterpretSimilarity(score) ==
    /\ SimIdle
    /\ simResult' = [SimCall("interpretSimilarity", "", 0, 0,
                             Returned(interpretSimilarity(score)))
                        EXCEPT !.score = score]

----------------------------------------------------------------------------
(* RAGController over EmbeddingService and PineconeVectorService *)

Queries == {"q"}

RagTitles == {"T", "U"}

TopKs == {1, 2}

Scores == {950, 700}

\* the vector the embedding API answers with
EmbeddingOf(text) == <<1, Len(text)>>

batchSize == 100

NoRagCall == [op |-> "none", documentId |-> "", outcome |-> "none",
              storeChunks |-> "none", value |-> <<>>, answer |-> <<>>,
              failed |-> "none"]

RagOutcome(op, documentId, outcome, storeChunksResult, value) ==
    [op |-> op, documentId |-> documentId, outcome |-> outcome,
     storeChunks |-> storeChunksResult, value |-> value, answer |-> <<>>,
     failed |-> "none"]

\* a guard that lets search through
NotInitialized_SearchUnguarded(op) == op # "search" /\ ~isInitialized

\* the test every operation of the controller starts with
NotInitialized(op) == ~isInitialized

\* the rejected promise of a call on a controller that is not initialized
RagRejected(op, documentId) ==
    /\ ragCall' = RagOutcome(op, documentId, "NotInitialized", "none", <<>>)
    /\ calls' = <<>>
    /\ UNCHANGED <<isInitialized, vsIndex, pinecone, ragPc, batchVars,
                   initSucceeded, storeVars, configVars, callVars, loopVars>>

RagIdle ==
    /\ ragPc = "idle"
    /\ pc = "idle"
    /\ budget > 0
    /\ budget' = budget - 1
    /\ UNCHANGED simVars

\* a flag that a failed initialize() leaves as it was
InitializedAfter_FailureKeepsFlag(embeddingOk, indexOk) ==
    isInitialized \/ (embeddingOk /\ indexOk)

\* this.isInitialized at the end of initialize(): true after both tests, false
\* in the catch
InitializedAfter(embeddingOk, indexOk) == embeddingOk /\ indexOk

\* initialize(): the embedding health check, then the connection to the index;
\* value keeps what the two collaborators had to answer
RagInitialize(embeddingOk, indexOk) ==
    /\ RagIdle
    /\ isInitialized' = InitializedAfter(embeddingOk, indexOk)
    /\ initSucceeded' = (initSucceeded \/ (embeddingOk /\ indexOk))
    /\ vsIndex' = IF embeddingOk THEN "index" ELSE vsIndex
    /\ calls' = IF embeddingOk THEN <<"embedContent", "describeIndexStats">>
                ELSE <<"embedContent">>
    /\ ragCall' = RagOutcome("initialize", "",
                             IF embeddingOk /\ indexOk THEN "true" ELSE "false",
                             "none", [embeddingOk |-> embeddingOk, indexOk |-> indexOk])
    /\ UNCHANGED <<pinecone, ragPc, batchVars,
                   storeVars, configVars, callVars, loopVars>>

\* addDocument up to the createChunks call inside documentService.addDocument
RagAddDocument(id, title, content) ==
    /\ RagIdle
    /\ IF NotInitialized("addDocument")
       THEN RagRejected("addDocument", id)
       ELSE /\ addDocument(id, title, content)
            /\ ragPc' = "ingesting"
            /\ ragCall' = RagOutcome("addDocument", id, "running", "none", <<>>)
            /\ calls' = <<>>
            /\ UNCHANGED <<isInitialized, vsIndex, pinecone, initSucceeded, batchVars>>

\* the chunks addDocument reads back from the DocumentService
ragChunks == getDocumentChunks(ragCall.documentId)

\* the texts addDocument asks embeddings for
chunkTexts == [n \in 1..Len(ragChunks) |-> ragChunks[n].content]

\* getBatchEmbeddings(texts) up to its loop
getBatchEmbeddings(texts) ==
    /\ batchTexts' = texts
    /\ batchEmbeddings' = EmptyMap
    /\ embedI' = 0
    /\ batchPc' = "loop"
    /\ inFlight' = 0
    /\ embedLog' = <<>>

\* getBatchEmbeddings called on its own
GetBatchEmbeddings(texts) ==
    /\ batchPc \in {"idle", "returned"}
    /\ ragPc = "idle"
    /\ pc = "idle"
    /\ budget > 0
    /\ budget' = budget - 1
    /\ getBatchEmbeddings(texts)
    /\ UNCHANGED <<controllerVars, storeVars, configVars, callVars, loopVars, simVars>>

\* addDocument, once the chunks are there, calls getBatchEmbeddings(chunkTexts)
RagEmbedChunks ==
    /\ ragPc = "ingesting"
    /\ pc = "idle"
    /\ getBatchEmbeddings(chunkTexts)
    /\ ragPc' = "embedding"
    /\ UNCHANGED <<isInitialized, vsIndex, pinecone, ragCall, calls, initSucceeded,
                   storeVars, configVars, callVars, loopVars, simVars, budget>>

Event(kind, i, ok) == [event |-> kind, index |-> i, ok |-> ok]

\* a loop that sends the next request without awaiting the one it has made
MayIssue_WithoutAwait == batchPc \in {"loop", "awaiting"} /\ embedI < Len(batchTexts)

\* the loop is at its head and a text is left
MayIssue == batchPc = "loop" /\ embedI < Len(batchTexts)

\* getEmbedding(texts[i]) sends its embedContent request
EmbedIssue ==
    /\ MayIssue
    /\ batchPc' = "awaiting"
    /\ inFlight' = inFlight + 1
    /\ embedLog' = Append(embedLog, Event("request", embedI, TRUE))
    /\ calls' = Append(calls, "embedContent")
    /\ UNCHANGED <<batchEmbeddings, embedI, batchTexts, isInitialized, vsIndex, pinecone,
                   ragPc, ragCall, initSucceeded,
                   storeVars, configVars, callVars, loopVars, simVars, budget>>

\* an object that keeps no entry for a failed request
StoreEmbedding_SkipFailed(m, text, ok) ==
    IF ok THEN MapSet(m, text, EmbeddingOf(text)) ELSE m

\* embeddings[text] = embedding, which getEmbedding made null if the request failed
StoreEmbedding(m, text, ok) == MapSet(m, text, IF ok THEN EmbeddingOf(text) ELSE Null)

\* the request is answered or fails, and the result is stored under the text
EmbedComplete(ok) ==
    /\ batchPc = "awaiting"
    /\ batchEmbeddings' = StoreEmbedding(batchEmbeddings, batchTexts[embedI + 1], ok)
    /\ inFlight' = inFlight - 1
    /\ batchPc' = "delay"
    /\ embedLog' = Append(embedLog, Event("response", embedI, ok))
    /\ UNCHANGED <<embedI, batchTexts, controllerVars,
                   storeVars, configVars, callVars, loopVars, simVars, budget>>

\* the timer of 100 ms fires and the loop goes to the next text
EmbedDelay ==
    /\ batchPc = "delay"
    /\ embedI' = embedI + 1
    /\ batchPc' = "loop"
    /\ embedLog' = Append(embedLog, Event("delay", embedI, TRUE))
    /\ UNCHANGED <<batchEmbeddings, batchTexts, inFlight, controllerVars,
                   storeVars, configVars, callVars, loopVars, simVars, budget>>

\* the loop ends and getBatchEmbeddings returns the object
BatchReturn ==
    /\ batchPc = "loop"
    /\ embedI >= Len(batchTexts)
    /\ batchPc' = "returned"
    /\ ragPc' = IF ragPc = "embedding" THEN "storing" ELSE ragPc
    /\ UNCHANGED <<batchEmbeddings, embedI, batchTexts, inFlight, embedLog,
                   isInitialized, vsIndex, pinecone, ragCall, calls, initSucceeded,
                   storeVars, configVars, callVars, loopVars, simVars, budget>>

chunksWithEmbeddings ==
    [n \in 1..Len(ragChunks) |->
        [chunk |-> ragChunks[n], embedding |-> batchEmbeddings[ragChunks[n].content]]]

\* the vector storeChunks builds from a chunk
VectorOf(c) == [id |-> c.chunk.id, values |-> c.embedding, metadata |-> c.chunk]

\* the index after an upsert of the vectors: of two vectors with one id the
\* later one stays
Upsert(idx, vectors) ==
    LET ids        == {vectors[n].id : n \in 1..Len(vectors)}
        LastOf(id) == CHOOSE n \in 1..Len(vectors) :
                          /\ vectors[n].id = id
                          /\ \A m \in (n + 1)..Len(vectors) : vectors[m].id # id
    IN  [id \in DOMAIN idx \cup ids |->
            IF id \in ids THEN vectors[LastOf(id)] ELSE idx[id]]

NumBatches(n) == (n + batchSize - 1) \div batchSize

\* the first k batches of the vectors
FirstBatches(vectors, k) == Slice(vectors, 0, k * batchSize)

\* the upsert requests storeChunks makes when the failAt-th of them fails (0 if
\* none does): the catch ends the loop
UpsertsSent(vectors, failAt) ==
    IF failAt = 0 THEN NumBatches(Len(vectors)) ELSE failAt

\* the vectors those requests have stored
VectorsStored(vectors, failAt) ==
    IF failAt = 0 THEN vectors ELSE FirstBatches(vectors, failAt - 1)

\* a group that begins one vector late
Batch_OnePlaceOn(vectors, b) == Slice(vectors, (b - 1) * batchSize + 1, b * batchSize + 1)

\* vectors.slice(i, i + batchSize) of the b-th pass of the loop, i = (b - 1) * batchSize
Batch(vectors, b) == Slice(vectors, (b - 1) * batchSize, b * batchSize)

\* an array of the n chunks of a document with their embeddings
ChunkArray(documentId, n) ==
    [k \in 1..n |-> [chunk |-> [id |-> ChunkId(documentId, k - 1)], embedding |-> <<1, 0>>]]

\* PineconeVectorService.initialize() called on its own
VectorInitialize(indexOk) ==
    /\ RagIdle
    /\ vsIndex' = "index"
    /\ calls' = <<"describeIndexStats">>
    /\ ragCall' = RagOutcome("vectorInitialize", "",
                             IF indexOk THEN "true" ELSE "false", "none", <<>>)
    /\ UNCHANGED <<isInitialized, pinecone, ragPc, initSucceeded, batchVars,
                   storeVars, configVars, callVars, loopVars>>

\* PineconeVectorService.storeChunks(chunks) called on its own; value keeps
\* the argument, the number of groups, the one whose upsert failed and the
\* groups handed to upsert
StoreChunks(chunkArr, failAt) ==
    /\ RagIdle
    /\ failAt \in 0..NumBatches(Len(chunkArr))
    /\ LET vectors == [n \in 1..Len(chunkArr) |-> VectorOf(chunkArr[n])]
           report  == [chunks  |-> chunkArr,
                       groups  |-> NumBatches(Len(vectors)),
                       failed  |-> failAt,
                       upserts |-> [b \in 1..UpsertsSent(vectors, failAt) |->
                                       Batch(vectors, b)]]
       IN  IF vsIndex = "null"
           THEN /\ ragCall' = RagOutcome("storeChunks", "", "threw", "threw",
                                         [report EXCEPT !.failed = 0, !.upserts = <<>>])
                /\ calls' = <<>>
                /\ UNCHANGED pinecone
           ELSE /\ pinecone' = Upsert(pinecone, VectorsStored(vectors, failAt))
                /\ calls' = [n \in 1..UpsertsSent(vectors, failAt) |-> "upsert"]
                /\ ragCall' = RagOutcome("storeChunks", "",
                                         IF failAt = 0 THEN "true" ELSE "false",
                                         IF failAt = 0 THEN "true" ELSE "false", report)
    /\ UNCHANGED <<isInitialized, vsIndex, ragPc, initSucceeded, batchVars,
                   storeVars, configVars, callVars, loopVars>>

\* the rest of addDocument: storeChunks upserts batch after batch until one
\* fails (failAt, 0 if none does), and addDocument returns; value keeps the
\* groups handed to upsert
RagStoreChunks(failAt) ==
    /\ ragPc = "storing"
    /\ failAt \in 0..NumBatches(Len(ragChunks))
    /\ LET vectors == [n \in 1..Len(ragChunks) |-> VectorOf(chunksWithEmbeddings[n])]
           sent    == UpsertsSent(vectors, failAt)
           stored  == VectorsStored(vectors, failAt)
       IN  IF vsIndex = "null"
           THEN /\ ragCall' = [ragCall EXCEPT !.outcome = "false", !.storeChunks = "threw"]
                /\ UNCHANGED <<pinecone, calls>>
           ELSE /\ pinecone' = Upsert(pinecone, stored)
                /\ calls' = calls \o [n \in 1..sent |-> "upsert"]
                /\ ragCall' = [ragCall EXCEPT
                                  !.outcome = "true",
                                  !.storeChunks = IF failAt = 0 THEN "true" ELSE "false",
                                  !.value = [b \in 1..sent |-> Batch(vectors, b)]]
    /\ ragPc' = "idle"
    /\ UNCHANGED <<isInitialized, vsIndex, batchVars, initSucceeded,
                   storeVars, configVars, callVars, loopVars, simVars, budget>>

\* the answers the index can give to a query: up to topK stored vectors,
\* each once, with a score
Matches(topK) ==
    {m \in UNION {[1..k -> [id : DOMAIN pinecone, score : Scores]] : k \in 0..topK} :
        \A a, b \in 1..Len(m) : a # b => m[a].id # m[b].id}

\* searchSimilar's result for a match
SimilarChunk(match) ==
    [id |-> match.id, score |-> match.score, chunk |-> pinecone[match.id].metadata]

\* the matches taken from the last one back
searchSimilar_Reversed(matches) ==
    [n \in 1..Len(matches) |-> SimilarChunk(matches[Len(matches) + 1 - n])]

\* results.matches.map(...) of searchSimilar
searchSimilar(matches) == [n \in 1..Len(matches) |-> SimilarChunk(matches[n])]

RECURSIVE buildContextFrom(_, _)
\* the context as its pieces: a header and a content per chunk, joined by
\* blank lines
buildContextFrom(similarChunks, n) ==
    IF n > Len(similarChunks) THEN <<>>
    ELSE (IF n > 1 THEN <<[piece |-> "blank line", index |-> 0, text |-> <<>>]>>
          ELSE <<>>)
         \o <<[piece |-> "header", index |-> n,
               text |-> similarChunks[n].chunk.documentTitle],
              [piece |-> "content", index |-> n,
               text |-> similarChunks[n].chunk.content]>>
         \o buildContextFrom(similarChunks, n + 1)

buildContext(similarChunks) == buildContextFrom(similarChunks, 1)

SearchResults(query, topK, similarChunks) ==
    [query        |-> query,
     topK         |-> topK,
     totalResults |-> Len(similarChunks),
     results      |-> [n \in 1..Len(similarChunks) |->
                         [rank           |-> n,
                          similarity     |-> similarChunks[n].score,
                          interpretation |-> interpretSimilarity(similarChunks[n].score),
                          document       |-> [id    |-> similarChunks[n].chunk.documentId,
                                              title |-> similarChunks[n].chunk.documentTitle],
                          chunk          |-> [id         |-> similarChunks[n].chunk.id,
                                              content    |-> similarChunks[n].chunk.content,
                                              chunkIndex |-> similarChunks[n].chunk.chunkIndex,
                                              wordCount  |-> similarChunks[n].chunk.wordCount]]],
     context      |-> buildContext(similarChunks)]

\* a failed query taken for an answered one
QueryAnswers_FailureIgnored(topK, queryOk) == Matches(topK)

\* results.matches as searchSimilar sees them: its catch turns a failed query
\* into no match
QueryAnswers(topK, queryOk) == IF queryOk THEN Matches(topK) ELSE {<<>>}

\* search(): the query embedding, the index query, the formatting; failed
\* keeps the stage that failed
RagSearch(query, topK, embeddingOk, queryOk) ==
    /\ RagIdle
    /\ IF NotInitialized("search")
       THEN RagRejected("search", "")
       ELSE /\ IF ~embeddingOk
               THEN /\ calls' = <<"embedContent">>
                    /\ ragCall' = [RagOutcome("search", "", "null", "none", <<>>)
                                   EXCEPT !.failed = "embedding"]
               ELSE IF vsIndex = "null"
               THEN /\ calls' = <<"embedContent">>
                    /\ ragCall' = [RagOutcome("search", "", "null", "none", <<>>)
                                   EXCEPT !.failed = "index"]
               ELSE /\ calls' = <<"embedContent", "query">>
                    /\ \E m \in QueryAnswers(topK, queryOk) :
                          ragCall' = [RagOutcome("search", "", "results", "none",
                                          SearchResults(query, topK, searchSimilar(m)))
                                      EXCEPT !.answer = m,
                                             !.failed = IF queryOk THEN "none" ELSE "query"]
            /\ UNCHANGED <<isInitialized, vsIndex, pinecone, ragPc, batchVars,
                   initSucceeded, storeVars, configVars, callVars, loopVars>>

\* getSystemStats(): the local statistics and those of the index
RagGetSystemStats(statsOk) ==
    /\ RagIdle
    /\ IF NotInitialized("getSystemStats")
       THEN RagRejected("getSystemStats", "")
       ELSE /\ IF vsIndex = "null"
               THEN /\ calls' = <<>>
                    /\ ragCall' = RagOutcome("getSystemStats", "", "error", "none", <<>>)
               ELSE /\ calls' = <<"describeIndexStats">>
                    /\ ragCall' = RagOutcome("getSystemStats", "", "healthy", "none",
                                     [documents |-> getStats,
                                      vectors   |-> IF statsOk
                                                    THEN Cardinality(DOMAIN pinecone)
                                                    ELSE -1])
            /\ UNCHANGED <<isInitialized, vsIndex, pinecone, ragPc, batchVars,
                   initSucceeded, storeVars, configVars, callVars, loopVars>>

\* the index without the vectors of a document
WithoutDocument(idx, documentId) ==
    [k \in {x \in DOMAIN idx : idx[x].metadata.documentId # documentId} |-> idx[k]]

\* deleteDocument(): deletes from the index only
RagDeleteDocument(documentId, deleteOk) ==
    /\ RagIdle
    /\ IF NotInitialized("deleteDocument")
       THEN RagRejected("deleteDocument", documentId)
       ELSE /\ IF vsIndex = "null"
               THEN /\ calls' = <<>>
                    /\ ragCall' = RagOutcome("deleteDocument", documentId, "false",
                                             "none", <<>>)
                    /\ UNCHANGED pinecone
               ELSE /\ calls' = <<"deleteMany">>
                    /\ ragCall' = RagOutcome("deleteDocument", documentId, "true",
                                             "none", <<>>)
                    /\ pinecone' = IF deleteOk THEN WithoutDocument(pinecone, documentId)
                                   ELSE pinecone
            /\ UNCHANGED <<isInitialized, vsIndex, ragPc, batchVars,
                   initSucceeded, storeVars, configVars, callVars, loopVars>>

----------------------------------------------------------------------------
(* Specifications *)

InitStoreWith(cfgs, n) ==
    /\ documents = EmptyMap
    /\ documentChunks = EmptyMap
    /\ chunkEmbeddings = <<>>
    /\ storeCall = NoStoreCall
    /\ ledger = EmptyLedger
    /\ \E c \in cfgs : chunkSize = c[1] /\ chunkOverlap = c[2]
    /\ pc = "idle"
    /\ callArgs = NoCall
    /\ loopI = 0
    /\ chunks = <<>>
    /\ currentPosition = 0
    /\ budget = n
    /\ simResult = NoSimCall
    /\ isInitialized = FALSE
    /\ vsIndex = "null"
    /\ pinecone = EmptyMap
    /\ ragPc = "idle"
    /\ ragCall = NoRagCall
    /\ calls = <<>>
    /\ batchEmbeddings = EmptyMap
    /\ embedI = 0
    /\ batchPc = "idle"
    /\ batchTexts = <<>>
    /\ inFlight = 0
    /\ embedLog = <<>>
    /\ initSucceeded = FALSE

\* createChunks on its own, under every setting
InitChunk == InitStoreWith(Configs, 1) /\ wordEmbeddings = <<>>

NextChunk ==
    \/ \E content \in Contents, id \in DocIds, title \in Titles :
          CreateChunks(content, id, title)
    \/ ChunkIter
    \/ ChunkReturn

SpecChunk == InitChunk /\ [][NextChunk]_vars

\* the store
InitStore == InitStoreWith(StoreConfigs, MaxOps) /\ wordEmbeddings = <<>>

NextStore ==
    \/ \E content \in Contents, id \in DocIds, title \in Titles :
          AddDocument(id, title, content)
    \/ ChunkIter
    \/ ChunkReturn
    \/ \E id \in DocIds, embeddings \in EmbeddingArrays :
          StoreChunkEmbeddings(id, embeddings)
    \/ ClearAll

SpecStore == InitStore /\ [][NextStore]_vars

\* a content of n words, no two of them alike: the k-th has k letters
NumberedContent(n) == Join([k \in 1..n |-> [j \in 1..k |-> "a"]])

\* contents of several distinct words, and the short ones with their blanks
WindowContents == {NumberedContent(n) : n \in 0..MaxWindowWords} \cup Contents

\* createChunks on contents of several windows, under every setting
InitWindow == InitStoreWith(Configs, 1) /\ wordEmbeddings = <<>>

NextWindow ==
    \/ \E content \in WindowContents, id \in DocIds, title \in Titles :
          CreateChunks(content, id, title)
    \/ ChunkIter
    \/ ChunkReturn

SpecWindow == InitWindow /\ [][NextWindow]_vars

\* a content of n words, every seventh of two letters, so that a window moved
\* by 10, 90 or 100 words reads differently
WordsContent(n) ==
    Join([k \in 1..n |-> IF k % 7 = 0 THEN <<"a", "a">> ELSE <<"a">>])

\* contents around the size of one window of the constructor's settings, some
\* with whitespace before or after
DefaultContents ==
    {WordsContent(n) : n \in {0, 1} \cup (85..MaxDefaultWords)}
    \cup {<<" ">> \o WordsContent(n) : n \in {90, 100}}
    \cup {WordsContent(n) \o <<" ">> : n \in {90, 100}}
    \cup Strings(1)

\* one addDocument on a DocumentService as constructed
InitDefault == InitStoreWith({DefaultConfig}, 1) /\ wordEmbeddings = <<>>

NextDefault ==
    \/ \E content \in DefaultContents, id \in DocIds, title \in Titles :
          AddDocument(id, title, content)
    \/ ChunkIter
    \/ ChunkReturn

SpecDefault == InitDefault /\ [][NextDefault]_vars

\* one call of the SimilarityService on every small object
InitSim == InitStoreWith({DefaultConfig}, 1) /\ wordEmbeddings \in Mappings(MaxWords)

NextSim ==
    \/ \E targetWord \in Words, topK \in 0..MaxWords :
          FindMostSimilar(targetWord, topK)
    \/ CreateSimilarityMatrix
    \/ \E threshold \in Thresholds : ClusterByThreshold(threshold)

SpecSim == InitSim /\ [][NextSim]_vars

\* the objects with at most n keys over the vectors of the clusters
ClusterMappings(n) ==
    {we \in UNION {[1..k -> [word : Words, embedding : ClusterVectors \cup {Null}]] :
                      k \in 0..n} :
        \A a, b \in 1..Len(we) : a # b => we[a].word # we[b].word}

\* one call of clusterByThreshold on every small object
InitCluster ==
    InitStoreWith({DefaultConfig}, 1) /\ wordEmbeddings \in ClusterMappings(MaxWords)

NextCluster == \E threshold \in Thresholds : ClusterByThreshold(threshold)

SpecCluster == InitCluster /\ [][NextCluster]_vars

\* one call of interpretSimilarity on every score
InitLabel == InitStoreWith({DefaultConfig}, 1) /\ wordEmbeddings = <<>>

NextLabel == \E score \in ScoreValues : InterpretSimilarity(score)

SpecLabel == InitLabel /\ [][NextLabel]_vars

\* the controller of a fresh process
InitRag == InitStoreWith({DefaultConfig}, MaxRagOps) /\ wordEmbeddings = <<>>

NextRag ==
    \/ \E embeddingOk \in BOOLEAN, indexOk \in BOOLEAN :
          RagInitialize(embeddingOk, indexOk)
    \/ \E content \in RagContents, id \in DocIds, title \in RagTitles :
          RagAddDocument(id, title, content)
    \/ ChunkIter
    \/ ChunkReturn
    \/ RagEmbedChunks
    \/ EmbedIssue
    \/ \E ok \in BOOLEAN : EmbedComplete(ok)
    \/ EmbedDelay
    \/ BatchReturn
    \/ \E failAt \in 0..1 : RagStoreChunks(failAt)
    \/ \E query \in Queries, topK \in TopKs, embeddingOk \in BOOLEAN,
          queryOk \in BOOLEAN :
          RagSearch(query, topK, embeddingOk, queryOk)
    \/ \E statsOk \in BOOLEAN : RagGetSystemStats(statsOk)
    \/ \E id \in DocIds, deleteOk \in BOOLEAN : RagDeleteDocument(id, deleteOk)

SpecRag == InitRag /\ [][NextRag]_vars

BatchTexts == {<<"a">>, <<"b">>}

\* the arrays of texts, with and without repeated texts
BatchInputs == UNION {[1..n -> BatchTexts] : n \in 0..MaxBatch}

\* one getBatchEmbeddings call on an EmbeddingService
InitBatch == InitStoreWith({DefaultConfig}, 1) /\ wordEmbeddings = <<>>

NextBatch ==
    \/ \E texts \in BatchInputs : GetBatchEmbeddings(texts)
    \/ EmbedIssue
    \/ \E ok \in BOOLEAN : EmbedComplete(ok)
    \/ EmbedDelay
    \/ BatchReturn

SpecBatch == InitBatch /\ [][NextBatch]_vars

\* arrays of no chunk, of one group, and around the sizes of one and two groups
ChunkCounts == {0, 1, batchSize, batchSize + 1, 2 * batchSize, MaxVectors}

\* a PineconeVectorService on its own
InitVector == InitStoreWith({DefaultConfig}, MaxVectorOps) /\ wordEmbeddings = <<>>

NextVector ==
    \/ \E indexOk \in BOOLEAN : VectorInitialize(indexOk)
    \/ \E id \in DocIds, n \in ChunkCounts, failAt \in 0..NumBatches(MaxVectors) :
          StoreChunks(ChunkArray(id, n), failAt)

SpecVector == InitVector /\ [][NextVector]_vars

----------------------------------------------------------------------------
(* Claims about DocumentService *)

\* C3: re-adding a document under an existing id replaces its prior chunk set
\* entirely: once the re-add has completed, every chunk record of that
\* document that the store still hands out, through getDocumentChunks or
\* through getAllChunksWithEmbeddings, is a chunk of the new version.
C3_ReAddReplacesChunks ==
    [][(/\ pc = "loop" /\ pc' = "idle"
        /\ callArgs.caller = "addDocument"
        /\ callArgs.documentId \in DOMAIN documentChunks)
       => /\ documentChunks'[callArgs.documentId] = chunks
          /\ \A n \in 1..Len(chunkEmbeddings') :
                chunkEmbeddings'[n].chunk.documentId = callArgs.documentId
                => chunkEmbeddings'[n].chunk \in Range(chunks)]_vars

\* C5: every iteration of the createChunks loop that emits a chunk moves the
\* window start forward by at least one word, whatever chunkSize and
\* chunkOverlap are.
C5_WindowAdvances ==
    [][(pc = "loop" /\ pc' = "loop" /\ chunks' # chunks)
       => loopI' >= loopI + 1]_vars

\* C6: the chunks of createChunks carry chunkIndex 0..n-1 in emission order,
\* and the id of each is "<documentId>_chunk_<chunkIndex>".
C6_ChunkIndexContiguous ==
    \A k \in 1..Len(chunks) :
        /\ chunks[k].chunkIndex = k - 1
        /\ chunks[k].id = callArgs.documentId \o "_chunk_" \o ToString(k - 1)

C6_Witness ==
    /\ pc = "idle"
    /\ callArgs.caller = "createChunks"
    /\ Len(chunks) >= 2

----------------------------------------------------------------------------
(* Claims about SimilarityService *)

WordsOf(we) == {we[n].word : n \in 1..Len(we)}

NonNullWords(we) == {we[n].word : n \in {k \in 1..Len(we) : we[k].embedding # Null}}

\* how often a word occurs in a sequence of clusters
Occurrences(clusters, word) ==
    Cardinality({<<c, k>> \in (1..Len(clusters)) \X (1..MaxWords + 1) :
                    k <= Len(clusters[c]) /\ clusters[c][k] = word})

\* C4: clusterByThreshold returns a partition of the input words, also when
\* some embedding is null: every word with a non-null embedding is in exactly
\* one cluster and every word is in at least one.
C4_ClustersPartition ==
    simResult.op = "clusterByThreshold"
    => /\ simResult.error = "none"
       /\ \A w \in NonNullWords(wordEmbeddings) :
             Occurrences(simResult.value, w) = 1
       /\ \A w \in WordsOf(wordEmbeddings) :
             Occurrences(simResult.value, w) >= 1

\* C7: for a target that has an embedding, the result of findMostSimilar never
\* holds the target word, has at most topK entries and is in non-increasing
\* order of similarity.
C7_RankingShape ==
    (/\ simResult.op = "findMostSimilar"
     /\ Lookup(wordEmbeddings, simResult.targetWord) # Null)
    => /\ simResult.error = "none"
       /\ \A n \in 1..Len(simResult.value) :
             simResult.value[n].word # simResult.targetWord
       /\ Len(simResult.value) <= simResult.topK
       /\ \A n \in 1..(Len(simResult.value) - 1) :
             simResult.value[n].similarity >= simResult.value[n + 1].similarity

\* a ranking of two different similarities that topK has cut short
C7_Witness ==
    /\ simResult.op = "findMostSimilar"
    /\ simResult.error = "none"
    /\ Len(simResult.value) = 2
    /\ simResult.topK = 2
    /\ simResult.value[1].similarity > simResult.value[2].similarity
    /\ Cardinality(NonNullWords(wordEmbeddings)) = 3
    /\ wordEmbeddings[1].word = simResult.value[2].word

\* C8: findMostSimilar throws its not-found error exactly when the target has
\* no embedding (null, or not a key); otherwise it returns, and the words
\* ranked are words with a non-null embedding: all of them other than the
\* target when topK does not cut the ranking short.
C8_NotFoundAndSkips ==
    simResult.op = "findMostSimilar"
    => IF Lookup(wordEmbeddings, simResult.targetWord) = Null
       THEN simResult.error = "Target word not found in embeddings"
       ELSE /\ simResult.error = "none"
            /\ \A n \in 1..Len(simResult.value) :
                  simResult.value[n].word \in NonNullWords(wordEmbeddings)
            /\ simResult.topK >= Len(wordEmbeddings)
               => {simResult.value[n].word : n \in 1..Len(simResult.value)}
                  = NonNullWords(wordEmbeddings) \ {simResult.targetWord}

\* a ranking over an object that holds a null embedding
C8_Witness ==
    /\ simResult.op = "findMostSimilar"
    /\ simResult.error = "none"
    /\ Len(simResult.value) = 1
    /\ Len(wordEmbeddings) = 3
    /\ simResult.topK = 3

\* a target without an embedding
C8_WitnessNotFound ==
    /\ simResult.op = "findMostSimilar"
    /\ simResult.error = "Target word not found in embeddings"
    /\ simResult.targetWord \in WordsOf(wordEmbeddings)

\* C9: the matrix of createSimilarityMatrix is symmetric: matrix[a][b] is
\* present exactly when matrix[b][a] is, and then the two are equal.
C9_MatrixSymmetric ==
    simResult.op = "createSimilarityMatrix"
    => \A a, b \in WordsOf(wordEmbeddings) :
          /\ <<a, b>> \in DOMAIN simResult.value
             <=> <<b, a>> \in DOMAIN simResult.value
          /\ <<a, b>> \in DOMAIN simResult.value
             => simResult.value[<<a, b>>] = simResult.value[<<b, a>>]

\* a matrix with an entry off the diagonal and an absent pair
C9_Witness ==
    /\ simResult.op = "createSimilarityMatrix"
    /\ Len(wordEmbeddings) = 3
    /\ \E a, b \in WordsOf(wordEmbeddings) :
          /\ a # b
          /\ <<a, b>> \in DOMAIN simResult.value
          /\ simResult.value[<<a, b>>] \notin {0, Scale}
    /\ \E a, b \in WordsOf(wordEmbeddings) : <<a, b>> \notin DOMAIN simResult.value

\* C10: in the matrix of createSimilarityMatrix the diagonal entry of every
\* input word is exactly 1.0, and for two different words the entry is present
\* exactly when both have a non-null embedding.
C10_DiagonalAndPresence ==
    simResult.op = "createSimilarityMatrix"
    => /\ simResult.error = "none"
       /\ \A w \in WordsOf(wordEmbeddings) :
             /\ <<w, w>> \in DOMAIN simResult.value
             /\ simResult.value[<<w, w>>] = Scale
       /\ \A a, b \in WordsOf(wordEmbeddings) :
             a # b => (<<a, b>> \in DOMAIN simResult.value
                       <=> {a, b} \subseteq NonNullWords(wordEmbeddings))

\* a matrix over an object with a null embedding and two real ones
C10_Witness ==
    /\ simResult.op = "createSimilarityMatrix"
    /\ Len(wordEmbeddings) = 3
    /\ Cardinality(NonNullWords(wordEmbeddings)) = 2
    /\ wordEmbeddings[1].embedding = Null

----------------------------------------------------------------------------
(* Claims about RAGController *)

\* C1: when the upsert stage fails for a document's chunks, that is when
\* storeChunks does not succeed, addDocument returns false.
C1_UpsertFailureReported ==
    (/\ ragCall.op = "addDocument"
     /\ ragPc = "idle"
     /\ ragCall.storeChunks \in {"false", "threw"})
    => ragCall.outcome = "false"

ControllerOperations == {"addDocument", "search", "getSystemStats", "deleteDocument"}

\* C2: as long as no initialize() has succeeded, every call of addDocument,
\* search, getSystemStats or deleteDocument is rejected as not initialized,
\* makes no request to a collaborator and leaves the DocumentStore, the
\* running state of its chunker and the index as they are.
C2_RejectedUntilInitialized ==
    [][(/\ ~initSucceeded
        /\ ragPc = "idle"
        /\ budget' # budget
        /\ ragCall'.op \in ControllerOperations)
       => /\ ragCall'.outcome = "NotInitialized"
          /\ calls' = <<>>
          /\ UNCHANGED <<storeVars, loopVars, pinecone, ragPc>>]_vars

\* a search rejected after an initialize() that reached the index and failed
C2_Witness ==
    /\ ~initSucceeded
    /\ vsIndex = "index"
    /\ ragCall.op = "search"
    /\ ragCall.outcome = "NotInitialized"

----------------------------------------------------------------------------
(* Claims about interpretSimilarity *)

LabelTable ==
    <<[above |-> 900, label |-> "Nearly identical meaning"],
      [above |-> 700, label |-> "Very similar meaning"],
      [above |-> 500, label |-> "Moderately similar"],
      [above |-> 300, label |-> "Somewhat related"],
      [above |-> 100, label |-> "Slightly related"]>>

\* C11: interpretSimilarity gives the label of the first threshold, in the
\* order 0.9, 0.7, 0.5, 0.3, 0.1, that the score strictly exceeds, and "Very
\* different meaning" when it exceeds none; a score equal to a threshold gets
\* the label of the next lower bucket.
C11_FirstThresholdExceeded ==
    simResult.op = "interpretSimilarity"
    => LET exceeded == {n \in 1..Len(LabelTable) : simResult.score > LabelTable[n].above}
           first    == CHOOSE n \in exceeded : \A k \in exceeded : n <= k
       IN  /\ exceeded = {} => simResult.value = "Very different meaning"
           /\ exceeded # {} => simResult.value = LabelTable[first].label
           /\ \A n \in 1..Len(LabelTable) :
                 simResult.score = LabelTable[n].above
                 => simResult.value = (IF n < Len(LabelTable)
                                       THEN LabelTable[n + 1].label
                                       ELSE "Very different meaning")

\* the score 0.7, which is "Moderately similar"
C11_Witness ==
    /\ simResult.op = "interpretSimilarity"
    /\ simResult.score = 700
    /\ simResult.value = "Moderately similar"

----------------------------------------------------------------------------
(* Claims about storeChunkEmbeddings and getStats *)

\* the entries a Map holds under a key
EntriesOf(m, key) == {m[n] : n \in {k \in 1..Len(m) : m[k].chunkId = key}}

\* a step that is a call of storeChunkEmbeddings
IsStoreChunkEmbeddings ==
    /\ budget' # budget
    /\ storeCall'.op = "storeChunkEmbeddings"

\* C14: storeChunkEmbeddings for an id under which no document is registered
\* throws its not-found error and leaves documents, chunks and stored
\* embeddings as they were.
C14_UnknownDocumentRejected ==
    [][(IsStoreChunkEmbeddings /\ storeCall'.documentId \notin DOMAIN documents)
       => /\ storeCall'.error = "Document not found"
          /\ UNCHANGED storeVars]_vars

\* the call rejected on a store that holds another document and its embeddings
C14_Witness ==
    /\ storeCall.op = "storeChunkEmbeddings"
    /\ storeCall.error = "Document not found"
    /\ DOMAIN documents # {}
    /\ Len(chunkEmbeddings) > 0

\* C15: storeChunkEmbeddings pairs chunks and embeddings by position: the
\* chunk at index i gets an entry under its id with embeddings[i] when that is
\* present; when embeddings[i] is null or absent nothing is stored under the
\* id of that chunk and nothing is raised.
C15_PairedByPosition ==
    [][(IsStoreChunkEmbeddings /\ storeCall'.documentId \in DOMAIN documents)
       => /\ storeCall'.error = "none"
          /\ \A i \in 0..(Len(getDocumentChunks(storeCall'.documentId)) - 1) :
                LET chunk   == getDocumentChunks(storeCall'.documentId)[i + 1]
                    given   == storeCall'.embeddings
                    present == i + 1 <= Len(given) /\ given[i + 1] # Null
                IN  IF present
                    THEN EntriesOf(chunkEmbeddings', chunk.id)
                         = {[chunkId |-> chunk.id, embedding |-> given[i + 1],
                             chunk |-> chunk]}
                    ELSE EntriesOf(chunkEmbeddings', chunk.id)
                         = EntriesOf(chunkEmbeddings, chunk.id)]_vars

\* two chunks, the first given null and the second a vector
C15_Witness ==
    /\ storeCall.op = "storeChunkEmbeddings"
    /\ storeCall.error = "none"
    /\ storeCall.embeddings = <<Null, <<1, 0>>>>
    /\ Len(getDocumentChunks(storeCall.documentId)) = 2
    /\ EntriesOf(chunkEmbeddings, ChunkId(storeCall.documentId, 0)) = {}
    /\ EntriesOf(chunkEmbeddings, ChunkId(storeCall.documentId, 1)) # {}

\* n is total / count rounded to an integer, halves upwards
IsRounded(n, total, count) ==
    /\ 2 * n * count - 2 * total > 0 - count
    /\ 2 * n * count - 2 * total <= count

\* C16: after any sequence of addDocument, storeChunkEmbeddings and clearAll,
\* getStats gives totalDocuments as the number of distinct ids registered,
\* totalChunks as the sum of their current chunk counts, totalEmbeddings as
\* the number of chunks an embedding was stored for, and averages rounded to
\* integers, which are 0 when there is no document.
C16_StatsCount ==
    pc = "idle"
    => /\ getStats.totalDocuments = Cardinality(ledger.ids)
       /\ getStats.totalChunks
          = SumOver([id \in ledger.ids |-> Len(getDocumentChunks(id))], ledger.ids)
       /\ getStats.totalEmbeddings = Cardinality(ledger.embedded)
       /\ IF ledger.ids = {}
          THEN /\ getStats.averageWordsPerDocument = 0
               /\ getStats.averageChunksPerDocument = 0
          ELSE /\ IsRounded(getStats.averageWordsPerDocument, getStats.totalWords,
                            Cardinality(ledger.ids))
               /\ IsRounded(getStats.averageChunksPerDocument, getStats.totalChunks,
                            Cardinality(ledger.ids))

\* two documents with an odd number of words between them, and an embedding
C16_Witness ==
    /\ pc = "idle"
    /\ getStats.totalDocuments = 2
    /\ getStats.totalWords % 2 = 1
    /\ getStats.totalChunks >= 2
    /\ getStats.totalEmbeddings >= 1

----------------------------------------------------------------------------
(* Claims about chunking with the constructor's settings, and blank windows *)

\* addDocument has returned
AddDocumentDone ==
    /\ pc = "idle"
    /\ callArgs.caller = "addDocument"
    /\ chunkSize = DefaultConfig[1]
    /\ chunkOverlap = DefaultConfig[2]

\* the document has exactly one chunk, which holds all the words
OneChunkOfAllWords ==
    /\ Len(getDocumentChunks(callArgs.documentId)) = 1
    /\ Split(getDocumentChunks(callArgs.documentId)[1].content) = Split(callArgs.content)
    /\ getDocumentChunks(callArgs.documentId)[1].wordCount = Len(Split(callArgs.content))

\* C17 as stated: with the default settings, addDocument on a content of at
\* most 100 whitespace-separated words yields exactly one chunk, and that
\* chunk contains all of the words.
C17_OneChunkUpTo100Words ==
    (AddDocumentDone /\ Len(Split(callArgs.content)) <= 100)
    => OneChunkOfAllWords

\* C17 amended: with the default settings, addDocument on a content that is
\* not blank and has at most 90 whitespace-separated words (the 100 of a
\* window less the 10 of the overlap) yields exactly one chunk, and that chunk
\* contains all of the words.
C17_OneChunkUpTo90Words ==
    (/\ AddDocumentDone
     /\ Trim(callArgs.content) # <<>>
     /\ Len(Split(callArgs.content)) <= 90)
    => OneChunkOfAllWords

\* a document of 90 words
C17_Witness ==
    /\ AddDocumentDone
    /\ Len(Split(callArgs.content)) = 90
    /\ OneChunkOfAllWords

\* C18: createChunks returns no chunk for an empty or whitespace-only
\* content, and no chunk it emits is empty after trimming: the loop is left
\* at the first window that is.
C18_NoBlankChunk ==
    /\ \A k \in 1..Len(chunks) : Len(Trim(chunks[k].content)) > 0
    /\ (pc = "idle" /\ callArgs.caller = "createChunks"
        /\ Len(Trim(callArgs.content)) = 0)
       => chunks = <<>>
    /\ (pc = "idle" /\ callArgs.caller = "createChunks" /\ loopI \in 0..(Len(words) - 1))
       => Len(Trim(chunkContent)) = 0

\* a chunk emitted, then a blank window inside the content ends the loop
C18_Witness ==
    /\ pc = "idle"
    /\ callArgs.caller = "createChunks"
    /\ Len(chunks) = 1
    /\ loopI \in 1..(Len(words) - 1)

----------------------------------------------------------------------------
(* Claims about EmbeddingService.getBatchEmbeddings *)

\* the places of the log where the request for texts[i] went out
RequestsFor(i) ==
    {k \in 1..Len(embedLog) : embedLog[k].event = "request" /\ embedLog[k].index = i - 1}

\* the request for texts[i] was answered
CallOk(i) ==
    \E k \in 1..Len(embedLog) :
        embedLog[k].event = "response" /\ embedLog[k].index = i - 1 /\ embedLog[k].ok

\* the last place of the array where the text stands
LastCall(text) ==
    CHOOSE i \in 1..Len(batchTexts) :
        /\ batchTexts[i] = text
        /\ \A j \in 1..Len(batchTexts) : batchTexts[j] = text => j <= i

\* what a call leaves in the object
EntryOf(i) == IF CallOk(i) THEN EmbeddingOf(batchTexts[i]) ELSE Null

\* C12 as stated: getBatchEmbeddings attempts every text whatever fails, and
\* the object it returns has an entry for every input text, null for a text
\* whose embedding call failed and the vector otherwise.
C12_EntryPerCall ==
    batchPc = "returned"
    => \A i \in 1..Len(batchTexts) :
          /\ Cardinality(RequestsFor(i)) = 1
          /\ batchTexts[i] \in DOMAIN batchEmbeddings
          /\ batchEmbeddings[batchTexts[i]] = EntryOf(i)

\* C12 amended: getBatchEmbeddings attempts every text whatever fails, and
\* the object it returns has exactly one entry for every distinct input text,
\* null if the last embedding call made for that text failed and the vector
\* otherwise.
C12_EntryOfLastCall ==
    batchPc = "returned"
    => /\ \A i \in 1..Len(batchTexts) : Cardinality(RequestsFor(i)) = 1
       /\ DOMAIN batchEmbeddings = Range(batchTexts)
       /\ \A text \in Range(batchTexts) :
             batchEmbeddings[text] = EntryOf(LastCall(text))

\* a batch whose first call fails, with the same text embedded after it
C12_Witness ==
    /\ batchPc = "returned"
    /\ Len(batchTexts) = 3
    /\ batchTexts[1] = batchTexts[2]
    /\ batchTexts[3] # batchTexts[1]
    /\ ~CallOk(1)
    /\ CallOk(2)
    /\ ~CallOk(3)
    /\ batchEmbeddings[batchTexts[3]] = Null

EventKinds == <<"request", "response", "delay">>

\* C20: during getBatchEmbeddings at most one embedding request is in flight,
\* the requests go out in input order, each after the response to the one
\* before it and the delay that follows that response, and the call returns
\* after exactly one request per text.
C20_StrictlySequential ==
    /\ inFlight \in {0, 1}
    /\ \A k \in 1..Len(embedLog) :
          /\ embedLog[k].index = (k - 1) \div 3
          /\ embedLog[k].event = EventKinds[((k - 1) % 3) + 1]
    /\ batchPc = "returned" => Len(embedLog) = 3 * Len(batchTexts)

\* a batch of several texts has returned
C20_Witness ==
    /\ batchPc = "returned"
    /\ Len(batchTexts) >= 2
    /\ Len(embedLog) = 3 * Len(batchTexts)

----------------------------------------------------------------------------
(* Claims about PineconeVectorService.storeChunks *)

\* C13: when the upsert of one group of vectors fails inside storeChunks, the
\* remaining groups are still sent to the index, and the failure is reported
\* in the result.
C13_UpsertContinuesPastFailure ==
    (/\ ragCall.op = "storeChunks"
     /\ ragCall.outcome # "threw"
     /\ ragCall.value.failed > 0)
    => /\ Len(calls) = ragCall.value.groups
       /\ ragCall.outcome = "false"

----------------------------------------------------------------------------
(* Claims about RAGController.search *)

\* the chunk the index holds under the id of the n-th match
MatchedChunk(n) == pinecone[ragCall.answer[n].id].metadata

\* C19: the results of a successful search keep the order of the matches the
\* index returned, with ranks 1..n, and the context is, in that order, the
\* content of each matched chunk under a header that names the title of its
\* document, a blank line between one entry and the next.
C19_RankedResultsAndContext ==
    (ragCall.op = "search" /\ ragCall.outcome = "results")
    => LET results == ragCall.value.results
           context == ragCall.value.context
           n       == Len(ragCall.answer)
       IN  /\ Len(results) = n
           /\ \A k \in 1..n :
                 /\ results[k].rank = k
                 /\ results[k].chunk.id = ragCall.answer[k].id
                 /\ results[k].similarity = ragCall.answer[k].score
           /\ Len(context) = IF n = 0 THEN 0 ELSE 3 * n - 1
           /\ \A k \in 1..n :
                 /\ context[3 * k - 2] =
                       [piece |-> "header", index |-> k,
                        text |-> MatchedChunk(k).documentTitle]
                 /\ context[3 * k - 1] =
                       [piece |-> "content", index |-> k,
                        text |-> MatchedChunk(k).content]
                 /\ k < n => context[3 * k].piece = "blank line"

\* a search answered with the chunks of two documents of different titles
C19_Witness ==
    /\ ragCall.op = "search"
    /\ ragCall.outcome = "results"
    /\ Len(ragCall.answer) = 2
    /\ MatchedChunk(1).documentTitle # MatchedChunk(2).documentTitle
    /\ ragCall.answer[1].score < ragCall.answer[2].score

----------------------------------------------------------------------------
(* Claims about what RAGController.addDocument leaves behind *)

\* addDocument of the controller has returned true
RagAddDocumentSucceeded ==
    /\ ragCall.op = "addDocument"
    /\ ragPc = "idle"
    /\ ragCall.outcome = "true"

\* the chunks of the document whose embedding was obtained
EmbeddedChunks ==
    {n \in 1..Len(ragChunks) : batchEmbeddings[ragChunks[n].content] # Null}

\* C21: after addDocument of the controller has succeeded for a document, the
\* DocumentService holds a chunk+embedding record for every chunk of the
\* document whose embedding was obtained, and getStats().totalEmbeddings
\* counts them.
C21_StoreHoldsEmbeddings ==
    RagAddDocumentSucceeded
    => /\ \A n \in EmbeddedChunks :
             \E e \in Range(chunkEmbeddings) :
                 /\ e.chunkId = ragChunks[n].id
                 /\ e.embedding = batchEmbeddings[ragChunks[n].content]
       /\ getStats.totalEmbeddings >= Cardinality(EmbeddedChunks)

----------------------------------------------------------------------------
(* Claims about the windows of createChunks *)

Min(a, b) == IF a < b THEN a ELSE b

\* the words of the k-th chunk emitted, counting from one
WordsOfChunk(k) == Split(chunks[k].content)

\* C22: when wordsPerChunk - overlapWords is at least 1, the k-th chunk
\* createChunks emits (counting from 0) holds exactly the words at the places
\* k*step to min(k*step + wordsPerChunk, number of words) of the split
\* content, in their order; its wordCount is at most wordsPerChunk, and two
\* consecutive full chunks share exactly overlapWords words.
C22_ChunkIsWindow ==
    (avgWordsPerChunk - overlapWords >= 1 /\ overlapWords >= 0)
    => \A k \in 1..Len(chunks) :
          LET step == avgWordsPerChunk - overlapWords
              from == (k - 1) * step
              to   == Min(from + avgWordsPerChunk, Len(words))
          IN  /\ WordsOfChunk(k) = SubSeq(words, from + 1, to)
              /\ chunks[k].wordCount = to - from
              /\ chunks[k].wordCount <= avgWordsPerChunk
              /\ (/\ k < Len(chunks)
                  /\ chunks[k].wordCount = avgWordsPerChunk
                  /\ chunks[k + 1].wordCount = avgWordsPerChunk)
                 => SubSeq(WordsOfChunk(k), step + 1, avgWordsPerChunk)
                    = SubSeq(WordsOfChunk(k + 1), 1, overlapWords)

\* two full chunks of three words that share one word, and a third chunk
C22_Witness ==
    /\ pc = "idle"
    /\ callArgs.caller = "createChunks"
    /\ avgWordsPerChunk = 3
    /\ overlapWords = 1
    /\ Len(chunks) = 3
    /\ chunks[1].wordCount = 3
    /\ chunks[2].wordCount = 3
    /\ chunks[3].wordCount = 1

----------------------------------------------------------------------------
(* Claims about the order of clusterByThreshold *)

\* the words of the clusters before the c-th
VisitedBefore(clusters, c) ==
    UNION {Range(clusters[b]) : b \in 1..(c - 1)}

\* the place of a word among the keys of the object
KeyPlace(we, word) == CHOOSE n \in 1..Len(we) : we[n].word = word

\* C23: over an object whose embeddings are all non-null, clusterByThreshold
\* emits its clusters in the order of their seeds among the keys; the first
\* element of a cluster is the first key not in an earlier cluster, and its
\* other members are exactly the words not in an earlier cluster whose
\* similarity to that seed is at least the threshold, so that a word similar
\* to several seeds is only in the cluster of the first of them.
C23_GreedyClusters ==
    (/\ simResult.op = "clusterByThreshold"
     /\ NonNullWords(wordEmbeddings) = WordsOf(wordEmbeddings))
    => /\ simResult.error = "none"
       /\ UNION {Range(simResult.value[c]) : c \in 1..Len(simResult.value)}
          = WordsOf(wordEmbeddings)
       /\ \A w \in WordsOf(wordEmbeddings) : Occurrences(simResult.value, w) = 1
       /\ \A c \in 1..Len(simResult.value) :
             LET cluster == simResult.value[c]
                 before  == VisitedBefore(simResult.value, c)
                 seed    == cluster[1]
             IN  /\ seed \notin before
                 /\ \A w \in WordsOf(wordEmbeddings) \ before :
                       KeyPlace(wordEmbeddings, seed) <= KeyPlace(wordEmbeddings, w)
                 /\ {cluster[n] : n \in 2..Len(cluster)}
                    = {w \in WordsOf(wordEmbeddings) \ (before \cup {seed}) :
                          calculateCosineSimilarity(Lookup(wordEmbeddings, seed),
                                                    Lookup(wordEmbeddings, w))
                          >= simResult.threshold}

\* the third word is similar to the first and to the second, which are not
\* similar to each other
C23_Witness ==
    /\ simResult.op = "clusterByThreshold"
    /\ simResult.threshold = 700
    /\ Len(wordEmbeddings) = 3
    /\ wordEmbeddings[1].embedding = <<1, 0>>
    /\ wordEmbeddings[2].embedding = <<0, 1>>
    /\ wordEmbeddings[3].embedding = <<1, 1>>
    /\ simResult.value = <<<<wordEmbeddings[1].word, wordEmbeddings[3].word>>,
                           <<wordEmbeddings[2].word>>>>

\* the vectors in the order in which they reached the index
RECURSIVE Concat(_)
Concat(groups) ==
    IF Len(groups) = 0 THEN <<>> ELSE groups[1] \o Concat(Tail(groups))

\* C24: when no upsert fails, storeChunks on n chunks makes exactly ceil(n/100)
\* upsert calls, none with more than 100 vectors, and the groups put one after
\* the other in the order of the calls are the vectors of all the chunks in
\* their order, none missing and none twice.
C24_GroupsOfHundred ==
    (ragCall.op = "storeChunks" /\ ragCall.outcome = "true")
    => LET n       == Len(ragCall.value.chunks)
           upserts == ragCall.value.upserts
       IN  /\ Len(calls) = Len(upserts)
           /\ 100 * (Len(upserts) - 1) < n
           /\ n <= 100 * Len(upserts)
           /\ \A b \in 1..Len(upserts) : Len(upserts[b]) \in 1..100
           /\ Concat(upserts) = [k \in 1..n |-> VectorOf(ragCall.value.chunks[k])]

\* three groups: two of a hundred vectors and one of what is left
C24_Witness ==
    /\ ragCall.op = "storeChunks"
    /\ ragCall.outcome = "true"
    /\ Len(ragCall.value.chunks) > 200
    /\ Len(ragCall.value.upserts) = 3
    /\ Len(ragCall.value.upserts[1]) = 100
    /\ Len(ragCall.value.upserts[3]) = Len(ragCall.value.chunks) - 200

----------------------------------------------------------------------------
(* Claims about the stored embeddings and the chunks they refer to *)

\* the ids of the chunks the store holds for its documents
CurrentChunkIds ==
    UNION {{documentChunks[d][n].id : n \in 1..Len(documentChunks[d])} :
             d \in DOMAIN documentChunks}

\* C25: after any sequence of addDocument (re-adds of an id among them),
\* storeChunkEmbeddings and clearAll, every stored chunk embedding refers to a
\* chunk that is in the chunk set of its document, so that totalEmbeddings
\* is never above totalChunks.
C25_EmbeddingsReferToChunks ==
    pc = "idle"
    => /\ \A n \in 1..Len(chunkEmbeddings) :
             chunkEmbeddings[n].chunkId \in CurrentChunkIds
       /\ getStats.totalEmbeddings <= getStats.totalChunks

----------------------------------------------------------------------------
(* Claims about the text the chunks of a document keep *)

NonEmptyWord(w) == Len(w) > 0

\* C26: with the default settings createChunks loses no text: every non-empty
\* word of the split content is in some chunk, and the chunks, each after the
\* first without its leading overlap words, put one after the other give back
\* the words of the content.
C26_NoTextLost ==
    AddDocumentDone
    => LET chunkWordsOf == [k \in 1..Len(chunks) |-> Split(chunks[k].content)]
           fresh        == [k \in 1..Len(chunks) |->
                               IF k = 1 THEN chunkWordsOf[k]
                               ELSE Slice(chunkWordsOf[k], overlapWords,
                                          Len(chunkWordsOf[k]))]
           contentWords == Split(callArgs.content)
       IN  /\ \A w \in Range(contentWords) :
                 NonEmptyWord(w)
                 => \E k \in 1..Len(chunks) : w \in Range(chunkWordsOf[k])
           /\ SelectSeq(Concat(fresh), NonEmptyWord)
              = SelectSeq(contentWords, NonEmptyWord)

\* a second chunk that brings words after its ten overlap words
C26_Witness ==
    /\ AddDocumentDone
    /\ Len(Split(callArgs.content)) > 100
    /\ Len(chunks) = 2
    /\ chunks[1].wordCount = 100
    /\ chunks[2].wordCount > 10

----------------------------------------------------------------------------
(* Claims about RAGController.initialize *)

\* a step that is a call of initialize()
IsInitialize ==
    /\ budget' # budget
    /\ ragCall'.op = "initialize"

\* C27: the initialized flag is what the last initialize() left: true exactly
\* when that call found the embedding service healthy and the index
\* reachable. No other step changes it, so that after a failed initialize()
\* addDocument and search are rejected as not initialized even if an earlier
\* one succeeded; and when the health check fails the index is not contacted.
C27_FlagFollowsLastInitialize ==
    [][/\ IsInitialize
          => /\ isInitialized' = (ragCall'.value.embeddingOk /\ ragCall'.value.indexOk)
             /\ ragCall'.outcome = IF isInitialized' THEN "true" ELSE "false"
             /\ ~ragCall'.value.embeddingOk
                => (calls' = <<"embedContent">> /\ vsIndex' = vsIndex)
       /\ ~IsInitialize => isInitialized' = isInitialized
       /\ (/\ budget' # budget
           /\ ragCall'.op \in {"addDocument", "search"})
          => (ragCall'.outcome = "NotInitialized" <=> ~isInitialized)]_vars

\* a search rejected after a failed initialize() that followed a successful one
C27_Witness ==
    /\ initSucceeded
    /\ ~isInitialized
    /\ ragCall.op = "search"
    /\ ragCall.outcome = "NotInitialized"

\* C28: every vector that addDocument of the controller hands to the index
\* has an embedding: a chunk whose embedding request failed is in no upsert.
C28_NoNullVectorUpserted ==
    (ragCall.op = "addDocument" /\ ragPc = "idle")
    => \A b \in 1..Len(ragCall.value) :
          \A k \in 1..Len(ragCall.value[b]) :
              ragCall.value[b][k].values # Null

----------------------------------------------------------------------------
(* Claims about the stages of RAGController.search *)

\* C29: search on an initialized controller embeds the query, then queries the
\* index, then formats. When the embedding fails it makes no index query and
\* returns null; when the index query fails it returns a result object with
\* totalResults 0 and an empty context, not null; it never raises.
C29_SearchStages ==
    (ragCall.op = "search" /\ ragCall.outcome # "NotInitialized")
    => /\ ragCall.outcome \in {"null", "results"}
       /\ ragCall.failed \in {"none", "embedding", "query"}
       /\ ragCall.failed = "embedding"
          => (ragCall.outcome = "null" /\ calls = <<"embedContent">>)
       /\ ragCall.failed = "query"
          => /\ calls = <<"embedContent", "query">>
             /\ ragCall.outcome = "results"
             /\ ragCall.value.totalResults = 0
             /\ ragCall.value.results = <<>>
             /\ ragCall.value.context = <<>>
       /\ ragCall.failed = "none"
          => /\ calls = <<"embedContent", "query">>
             /\ ragCall.outcome = "results"
             /\ ragCall.value.totalResults = Len(ragCall.answer)

\* a query that fails on an index that holds a vector
C29_Witness ==
    /\ ragCall.op = "search"
    /\ ragCall.failed = "query"
    /\ ragCall.outcome = "results"
    /\ DOMAIN pinecone # {}

\* a search whose query embedding failed
C29_WitnessEmbedding ==
    /\ ragCall.op = "search"
    /\ ragCall.failed = "embedding"
    /\ ragCall.outcome = "null"
    /\ DOMAIN pinecone # {}

====
